---------------------------- MODULE Spec2Model ----------------------------
(***************************************************************************)
(* Majority-voting ensembler of MedAID-ML                                  *)
(* (src/src/medaidml/ensemble/mayority_voting.ipynb).                      *)
(*                                                                         *)
(* The notebook loops over the experiments; for each one it reads one CSV  *)
(* per model path, stacks the Prediction columns, takes the per-column     *)
(* majority vote and writes three artifacts.  No exception is caught, so   *)
(* the first exception raised ends the run.                                *)
(*                                                                         *)
(* Two specifications:                                                     *)
(*   Spec      the experiment loop, with the CSV files read drawn from     *)
(*             the environment at each read;                               *)
(*   SpecVote  majority_voting applied to an arbitrary prediction matrix.  *)
(***************************************************************************)
EXTENDS Integers, Sequences, FiniteSets, TLC

\* ------------------------------------------------------------- bounds
\* experiment loop
NumExperiments == 2
NumPaths == 2
MaxSamples == 1
\* prediction matrices of SpecVote
MaxModels == 3
MaxCols == 2
MaxLabel == 1

\* ------------------------------------------------------------- script parameters
experiments == [i \in 1..NumExperiments |-> i]

preds_path == [i \in 1..NumPaths |-> i]

all_models == TRUE

\* The class labels of the CSV files: the classification is binary.
Labels == {0, 1}

\* Python's None, for a variable that holds an integer vector otherwise.
None == <<-1>>

\* ------------------------------------------------------------- numpy
RECURSIVE SeqMax(_)
SeqMax(x) ==
    IF Len(x) = 1 THEN x[1]
    ELSE LET m == SeqMax(Tail(x)) IN IF x[1] > m THEN x[1] ELSE m

\* np.bincount(x): the number of occurrences of every k in 0..max(x).
bincount(x) ==
    [k \in 0..SeqMax(x) |-> Cardinality({r \in DOMAIN x : x[r] = k})]

\* ndarray.argmax(): the first index holding the maximum.
argmax_last(b) ==
    CHOOSE k \in DOMAIN b :
        /\ \A j \in DOMAIN b : b[j] <= b[k]
        /\ \A j \in DOMAIN b : j > k => b[j] < b[k]

argmax(b) ==
    CHOOSE k \in DOMAIN b :
        /\ \A j \in DOMAIN b : b[j] <= b[k]
        /\ \A j \in DOMAIN b : j < k => b[j] < b[k]

\* np.array(rows) of a list of 1-D integer arrays: a 2-D array when the rows
\* have one length; otherwise numpy raises ValueError (inhomogeneous shape).
IsRagged(rows) ==
    \E i, j \in DOMAIN rows : Len(rows[i]) # Len(rows[j])

RECURSIVE MaxRowLen(_)
MaxRowLen(rows) ==
    IF Len(rows) = 1 THEN Len(rows[1])
    ELSE LET m == MaxRowLen(Tail(rows)) IN
         IF Len(rows[1]) > m THEN Len(rows[1]) ELSE m

np_array_padded(rows) ==
    [ok |-> TRUE,
     shape |-> <<Len(rows), MaxRowLen(rows)>>,
     rows |-> [i \in DOMAIN rows |->
                 [c \in 1..MaxRowLen(rows) |->
                     IF c <= Len(rows[i]) THEN rows[i][c] ELSE 0]]]

np_array(rows) ==
    IF IsRagged(rows)
    THEN [ok |-> FALSE, shape |-> <<Len(rows), 0>>, rows |-> rows]
    ELSE [ok |-> TRUE, shape |-> <<Len(rows), Len(rows[1])>>, rows |-> rows]

\* The 1-D slice of arr along axis 0 at column i.
Column(arr, i) == [r \in 1..arr.shape[1] |-> arr.rows[r][i]]

\* ------------------------------------------------------------- majority_voting
\* np.apply_along_axis(lambda x: np.bincount(x).argmax(), axis=0, arr=predictions)
majority_voting_axis1(predictions) ==
    [r \in 1..predictions.shape[1] |-> argmax(bincount(predictions.rows[r]))]

majority_voting_count(predictions) ==
    [i \in 1..predictions.shape[2] |->
        LET b == bincount(Column(predictions, i)) IN b[argmax(b)]]

majority_voting(predictions) ==
    [i \in 1..predictions.shape[2] |-> argmax(bincount(Column(predictions, i)))]

\* np.apply_along_axis raises ValueError when an iteration dimension is 0.
VoteRaises(predictions) == predictions.shape[2] = 0

\* ------------------------------------------------------------- sklearn
RECURSIVE SetToSortedSeq(_)
SetToSortedSeq(S) ==
    IF S = {} THEN <<>>
    ELSE LET m == CHOOSE a \in S : \A b \in S : a <= b
         IN <<m>> \o SetToSortedSeq(S \ {m})

\* unique_labels(y_true, y_pred): the sorted labels occurring in either.
unique_labels(y_true, y_pred) ==
    SetToSortedSeq({y_true[i] : i \in DOMAIN y_true}
                   \cup {y_pred[i] : i \in DOMAIN y_pred})

Count(y_true, y_pred, t, p) ==
    Cardinality({i \in DOMAIN y_true : y_true[i] = t /\ y_pred[i] = p})

\* confusion_matrix(y_true, y_pred): C x C, entry [i][j] the number of samples
\* of true class labels[i] predicted as labels[j].
confusion_matrix(y_true, y_pred) ==
    LET labels == unique_labels(y_true, y_pred) IN
    [i \in DOMAIN labels |->
        [j \in DOMAIN labels |-> Count(y_true, y_pred, labels[i], labels[j])]]

\* A ratio n/d; sklearn reports 0.0 where the denominator is 0.
Ratio(n, d) == IF d = 0 THEN <<0, 1>> ELSE <<n, d>>

RatioAdd(a, b) == <<a[1] * b[2] + b[1] * a[2], a[2] * b[2]>>

RECURSIVE RatioSum(_)
RatioSum(rs) ==
    IF rs = <<>> THEN <<0, 1>> ELSE RatioAdd(rs[1], RatioSum(Tail(rs)))

\* '{:.2f}'.format(n/d), as the number of hundredths (ties to even).
Fmt2(r) ==
    LET q == (100 * r[1]) \div r[2]
        rem == (100 * r[1]) % r[2]
        h == IF 2 * rem > r[2] THEN q + 1
             ELSE IF 2 * rem < r[2] THEN q
             ELSE IF q % 2 = 0 THEN q ELSE q + 1
    IN ToString(h)

\* Support, precision, recall and f1-score of class k.
class_stat(y_true, y_pred, k) ==
    LET tp == Count(y_true, y_pred, k, k)
        npred == Cardinality({j \in DOMAIN y_pred : y_pred[j] = k})
        support == Cardinality({j \in DOMAIN y_true : y_true[j] = k})
    IN <<support, Ratio(tp, npred), Ratio(tp, support),
         Ratio(2 * tp, npred + support)>>

\* The macro average of column c of the per-class statistics.
macro_avg(stat, c) ==
    LET s == RatioSum([i \in DOMAIN stat |-> stat[i][c]])
    IN <<s[1], s[2] * Len(stat)>>

\* The support-weighted average of column c, over n samples.
weighted_avg(stat, c, n) ==
    LET s == RatioSum([i \in DOMAIN stat |->
                         <<stat[i][c][1] * stat[i][1], stat[i][c][2]>>])
    IN Ratio(s[1], s[2] * n)

\* The lines of the report, each a tuple of its cells: one line per class,
\* then accuracy and the macro and weighted averages.
report_lines(labels, stat, n, correct) ==
    <<<<"", "precision", "recall", "f1-score", "support">>>>
    \o [i \in DOMAIN labels |->
          <<ToString(labels[i]), Fmt2(stat[i][2]), Fmt2(stat[i][3]),
            Fmt2(stat[i][4]), ToString(stat[i][1])>>]
    \o << <<"accuracy", "", "", Fmt2(Ratio(correct, n)), ToString(n)>>,
          <<"macro avg", Fmt2(macro_avg(stat, 2)), Fmt2(macro_avg(stat, 3)),
            Fmt2(macro_avg(stat, 4)), ToString(n)>>,
          <<"weighted avg", Fmt2(weighted_avg(stat, 2, n)),
            Fmt2(weighted_avg(stat, 3, n)), Fmt2(weighted_avg(stat, 4, n)),
            ToString(n)>> >>

\* classification_report(y_true, y_pred)
classification_report(y_true, y_pred) ==
    LET labels == unique_labels(y_true, y_pred) IN
    report_lines(labels,
                 [i \in DOMAIN labels |-> class_stat(y_true, y_pred, labels[i])],
                 Len(y_true),
                 Cardinality({i \in DOMAIN y_true : y_true[i] = y_pred[i]}))

\* ------------------------------------------------------------- pandas
\* pd.DataFrame(data, index=..., columns=...) raises ValueError unless the
\* shape of data is (len(index), len(columns)).
DataFrameRaises(data, index, columns) ==
    \/ Len(data) # Len(index)
    \/ \E i \in DOMAIN data : Len(data[i]) # Len(columns)

\* DataFrame.to_csv(): the header line, then one line per row led by its
\* index label.
to_csv(data, index, columns) ==
    <<(<<"">> \o columns)>>
    \o [i \in DOMAIN data |->
          <<index[i]>> \o [j \in DOMAIN data[i] |-> ToString(data[i][j])]]

\* pd.DataFrame(ensembler_pred, columns=['prediction']).to_csv(index=False)
predictions_csv(ensembler_pred) ==
    <<(<<"prediction">>)>>
    \o [i \in DOMAIN ensembler_pred |-> <<ToString(ensembler_pred[i])>>]

cm_index == <<"Actual 0", "Actual 1">>

cm_columns == <<"Predicted 0", "Predicted 1">>

\* ------------------------------------------------------------- files
ensemble_file_name(experiment) ==
    IF all_models THEN <<"MV_ens_all_models_exp_", experiment>>
                  ELSE <<"MV_ens_no_mT5_", experiment>>

file_predictions(name) == <<"../ensembler/predictions/", name, ".csv">>

file_scores(name) == <<"../ensembler/scores/", name, ".txt">>

file_matrix(name) == <<"../ensembler/matrix/", name, "_matrix.csv">>

OutputPaths(experiment) ==
    LET name == ensemble_file_name(experiment) IN
    {file_predictions(name), file_scores(name), file_matrix(name)}

AllOutputPaths == UNION {OutputPaths(experiments[i]) : i \in DOMAIN experiments}

\* A file system entry is {} when the file does not exist and {content}
\* when it does.  Opening with mode 'w' (to_csv, open(.., 'w')) replaces the
\* content.
append_file(fs, path, content) ==
    [fs EXCEPT ![path] = IF fs[path] = {} THEN {content}
                         ELSE {(CHOOSE old \in fs[path] : TRUE) \o content}]

write_file(fs, path, content) == [fs EXCEPT ![path] = {content}]

\* The artifacts an earlier run of the notebook left behind for the first
\* experiment: those of ground truth [0] and consensus [1].
PriorTrue == <<0>>

PriorPred == <<1>>

PriorContent(path) ==
    IF path[3] = ".csv" THEN predictions_csv(PriorPred)
    ELSE IF path[3] = ".txt" THEN classification_report(PriorTrue, PriorPred)
    ELSE to_csv(confusion_matrix(PriorTrue, PriorPred), cm_index, cm_columns)

\* The output files as the run finds them.
disk_before ==
    [p \in AllOutputPaths |->
        IF p \in OutputPaths(experiments[1]) THEN {PriorContent(p)} ELSE {}]

\* The CSV files the environment can hold: 0..MaxSamples rows, each with a
\* Prediction and a label.
Columns == UNION {[1..n -> Labels] : n \in 0..MaxSamples}

CsvFiles ==
    {f \in [Prediction : Columns, label : Columns] :
        Len(f.Prediction) = Len(f.label)}

\* ------------------------------------------------------------- state
VARIABLES
    pc,              \* the statement of the loop cell to execute next
    err,             \* the uncaught exception that ended the run, or "none"
    SAVE,            \* the output toggle
    exp_idx,         \* position of `experiment` in experiments (0: before the loop)
    path_idx,        \* number of paths of preds_path already iterated
    model_preds,
    y_true_loaded,
    ensembler_pred,
    disk,            \* the output files
    written,         \* the output paths this run has written
    first_label,     \* label column of the first file read for the experiment
    later_differs    \* a later file of the experiment had another label column

vars == <<pc, err, SAVE, exp_idx, path_idx, model_preds, y_true_loaded,
          ensembler_pred, disk, written, first_label, later_differs>>

experiment == experiments[exp_idx]

Running == err = "none"

InitCommon ==
    /\ err = "none"
    /\ exp_idx = 0
    /\ path_idx = 0
    /\ y_true_loaded = None
    /\ ensembler_pred = None
    /\ written = {}
    /\ first_label = None
    /\ later_differs = FALSE
    /\ disk = disk_before

Init ==
    /\ InitCommon
    /\ pc = "for_experiment"
    /\ SAVE \in BOOLEAN
    /\ model_preds = <<>>

\* ------------------------------------------------------------- the loop cell
\* for experiment in experiments: model_preds = []; y_true_loaded = None
StartExperiment_keep ==
    /\ Running
    /\ pc = "for_experiment"
    /\ exp_idx < Len(experiments)
    /\ exp_idx' = exp_idx + 1
    /\ path_idx' = 0
    /\ pc' = "for_path"
    /\ UNCHANGED <<err, SAVE, model_preds, y_true_loaded, ensembler_pred, disk,
                   written, first_label, later_differs>>

StartExperiment ==
    /\ Running
    /\ pc = "for_experiment"
    /\ exp_idx < Len(experiments)
    /\ exp_idx' = exp_idx + 1
    /\ model_preds' = <<>>
    /\ y_true_loaded' = None
    /\ path_idx' = 0
    /\ pc' = "for_path"
    /\ first_label' = None
    /\ later_differs' = FALSE
    /\ UNCHANGED <<err, SAVE, ensembler_pred, disk, written>>

\* The experiments are exhausted: the cell ends.
EndLoop ==
    /\ Running
    /\ pc = "for_experiment"
    /\ exp_idx = Len(experiments)
    /\ pc' = "done"
    /\ UNCHANGED <<err, SAVE, exp_idx, path_idx, model_preds, y_true_loaded,
                   ensembler_pred, disk, written,
                   first_label, later_differs>>

\* if y_true_loaded is None: y_true_loaded = df['label'].values
load_label_always(y, label) == label

load_label(y, label) == IF y = None THEN label ELSE y

\* The exceptions of pd.read_csv(file_path) and df['Prediction'].
ReadErrors == {"FileNotFoundError", "KeyError"}

\* One iteration of `for path in preds_path`, with the read failure handled
\* by skipping to the next experiment.
ReadFile_isolated ==
    /\ Running
    /\ pc = "for_path"
    /\ path_idx < Len(preds_path)
    /\ \/ /\ \E e \in ReadErrors : TRUE
          /\ pc' = "for_experiment"
          /\ UNCHANGED <<err, path_idx, model_preds, y_true_loaded, first_label,
                         later_differs>>
       \/ \E df \in CsvFiles :
             /\ model_preds' = Append(model_preds, df.Prediction)
             /\ y_true_loaded' = load_label(y_true_loaded, df.label)
             /\ first_label' = IF path_idx = 0 THEN df.label ELSE first_label
             /\ later_differs' =
                    (later_differs \/ (path_idx > 0 /\ df.label # first_label))
             /\ path_idx' = path_idx + 1
             /\ pc' = IF path_idx' = Len(preds_path) THEN "np_array" ELSE "for_path"
             /\ err' = err
    /\ UNCHANGED <<SAVE, exp_idx, ensembler_pred, disk, written>>

\* One iteration of `for path in preds_path`: read the file of the next path,
\* whatever the environment holds there, or fail reading it.
ReadFile ==
    /\ Running
    /\ pc = "for_path"
    /\ path_idx < Len(preds_path)
    /\ \/ /\ \E e \in ReadErrors : err' = e
          /\ UNCHANGED <<pc, path_idx, model_preds, y_true_loaded, first_label,
                         later_differs>>
       \/ \E df \in CsvFiles :
             /\ model_preds' = Append(model_preds, df.Prediction)
             /\ y_true_loaded' = load_label(y_true_loaded, df.label)
             /\ first_label' = IF path_idx = 0 THEN df.label ELSE first_label
             /\ later_differs' =
                    (later_differs \/ (path_idx > 0 /\ df.label # first_label))
             /\ path_idx' = path_idx + 1
             /\ pc' = IF path_idx' = Len(preds_path) THEN "np_array" ELSE "for_path"
             /\ err' = err
    /\ UNCHANGED <<SAVE, exp_idx, ensembler_pred, disk, written>>

\* if SAVE: ...
after_vote_always(save) == "save_ensemble_predictions"

after_vote(save) ==
    IF save THEN "save_ensemble_predictions" ELSE "for_experiment"

\* all_predictions = np.array(model_preds)
\* ensembler_pred = majority_voting(all_predictions)
\* all_predictions is assigned and consumed within this step; no other
\* statement reads it.
StackAndVote ==
    /\ Running
    /\ pc = "np_array"
    /\ LET all_predictions == np_array(model_preds) IN
       IF ~all_predictions.ok \/ VoteRaises(all_predictions)
       THEN /\ err' = "ValueError"
            /\ UNCHANGED <<pc, ensembler_pred>>
       ELSE /\ ensembler_pred' = majority_voting(all_predictions)
            /\ pc' = after_vote(SAVE)
            /\ err' = err
    /\ UNCHANGED <<SAVE, exp_idx, path_idx, model_preds, y_true_loaded,
                   disk, written, first_label, later_differs>>

\* save_ensemble_predictions(ensembler_pred, ensemble_file_name)
SavePredictions ==
    /\ Running
    /\ pc = "save_ensemble_predictions"
    /\ LET path == file_predictions(ensemble_file_name(experiment))
           content == predictions_csv(ensembler_pred)
       IN /\ disk' = write_file(disk, path, content)
          /\ written' = written \cup {path}
    /\ pc' = "save_ensemble_scores"
    /\ UNCHANGED <<err, SAVE, exp_idx, path_idx, model_preds, y_true_loaded,
                   ensembler_pred, first_label, later_differs>>

\* save_ensemble_scores(y_true_loaded, ensembler_pred, ensemble_file_name)
SaveScores ==
    /\ Running
    /\ pc = "save_ensemble_scores"
    /\ LET path == file_scores(ensemble_file_name(experiment)) IN
          /\ disk' = write_file(disk, path,
                         classification_report(y_true_loaded, ensembler_pred))
          /\ written' = written \cup {path}
    /\ pc' = "save_confusion_matrix"
    /\ UNCHANGED <<err, SAVE, exp_idx, path_idx, model_preds, y_true_loaded,
                   ensembler_pred, first_label, later_differs>>

\* save_confusion_matrix(y_true_loaded, ensembler_pred, ensemble_file_name):
\* pd.DataFrame raises unless the confusion matrix is 2 x 2.
SaveMatrix ==
    /\ Running
    /\ pc = "save_confusion_matrix"
    /\ LET path == file_matrix(ensemble_file_name(experiment))
           cm == confusion_matrix(y_true_loaded, ensembler_pred)
       IN IF DataFrameRaises(cm, cm_index, cm_columns)
          THEN /\ err' = "ValueError"
               /\ UNCHANGED <<pc, disk, written>>
          ELSE /\ disk' = write_file(disk, path, to_csv(cm, cm_index, cm_columns))
               /\ written' = written \cup {path}
               /\ pc' = "for_experiment"
               /\ err' = err
    /\ UNCHANGED <<SAVE, exp_idx, path_idx, model_preds, y_true_loaded,
                   ensembler_pred, first_label, later_differs>>

Next ==
    \/ StartExperiment
    \/ ReadFile
    \/ StackAndVote
    \/ SavePredictions
    \/ SaveScores
    \/ SaveMatrix
    \/ EndLoop

Spec == Init /\ [][Next]_vars

\* ------------------------------------------------------------- SpecVote
\* The prediction matrices of shape (M, N), 1 <= M <= MaxModels,
\* 1 <= N <= MaxCols, with labels in 0..MaxLabel.
PredictionRows(m, n) == [1..m -> [1..n -> 0..MaxLabel]]

InitVote ==
    /\ InitCommon
    /\ pc = "np_array"
    /\ SAVE = FALSE
    /\ \E m \in 1..MaxModels, n \in 1..MaxCols :
          model_preds \in PredictionRows(m, n)

SpecVote == InitVote /\ [][StackAndVote]_vars

\* ------------------------------------------------------------- properties
SavePcs ==
    {"save_ensemble_predictions", "save_ensemble_scores", "save_confusion_matrix"}

\* The vote of the current matrix has been computed and is in ensembler_pred.
VoteDone ==
    /\ Running
    /\ pc \in SavePcs \cup {"for_experiment", "done"}
    /\ ensembler_pred # None

\* Number of rows of the matrix holding label k in column i.
Occurrences(rows, i, k) ==
    Cardinality({r \in DOMAIN rows : rows[r][i] = k})

\* C1: for every (M, N) matrix, M >= 1, N >= 1, of non-negative labels,
\* majority_voting returns a vector of length N whose element i occurs in
\* column i at least as often as every other label.
C1_MajorityVote ==
    VoteDone =>
        /\ Len(ensembler_pred) = Len(model_preds[1])
        /\ \A i \in DOMAIN ensembler_pred :
              /\ Occurrences(model_preds, i, ensembler_pred[i]) >= 1
              /\ \A r \in DOMAIN model_preds :
                    Occurrences(model_preds, i, ensembler_pred[i])
                        >= Occurrences(model_preds, i, model_preds[r][i])

\* The first two columns of [[0,1,1],[1,1,0],[0,1,1]] give [0,1].
C1_Witness ==
    /\ VoteDone
    /\ model_preds = <<(<<0, 1>>), (<<1, 1>>), (<<0, 1>>)>>
    /\ ensembler_pred = <<0, 1>>

\* C2: in every column where several labels share the maximum count,
\* majority_voting returns the smallest of them; rows [0] and [1] give 0.
C2_TieBreak ==
    VoteDone =>
        \A i \in DOMAIN ensembler_pred :
            \A r \in DOMAIN model_preds :
                Occurrences(model_preds, i, model_preds[r][i])
                    = Occurrences(model_preds, i, ensembler_pred[i])
                => ensembler_pred[i] <= model_preds[r][i]

C2_Witness ==
    /\ VoteDone
    /\ model_preds = <<(<<0>>), (<<1>>)>>
    /\ ensembler_pred = <<0>>

\* C7: a matrix whose rows are all identical (a single row included) is
\* voted to exactly that row.
C7_IdenticalRows ==
    (VoteDone /\ \A r \in DOMAIN model_preds : model_preds[r] = model_preds[1])
        => ensembler_pred = model_preds[1]

C7_Witness ==
    /\ VoteDone
    /\ model_preds = <<(<<1, 0>>), (<<1, 0>>), (<<1, 0>>)>>
    /\ ensembler_pred = <<1, 0>>

\* C3: prediction rows of mismatched lengths make np.array raise (numpy's
\* ValueError for an inhomogeneous shape) before a vote is computed or an
\* artifact of the experiment is written; ragged rows never get past that
\* statement, and the exception ends the run.
C3_ShapeMismatch ==
    /\ [](IsRagged(model_preds) =>
            /\ pc \in {"for_path", "np_array"}
            /\ written \cap OutputPaths(experiment) = {})
    /\ [][/\ err = "none"
          /\ (pc = "np_array" /\ IsRagged(model_preds)) =>
                /\ err' = "ValueError"
                /\ pc' = pc
                /\ ensembler_pred' = ensembler_pred
                /\ disk' = disk
                /\ written' = written]_vars

C3_Witness ==
    /\ pc = "np_array"
    /\ err = "ValueError"
    /\ IsRagged(model_preds)
    /\ model_preds[1] # <<>>

\* C4, as claimed: after a read failure in an experiment that is not the last
\* one, the run goes on to the later experiments.
C4_LoopIsolation ==
    (err \in ReadErrors /\ exp_idx < Len(experiments)) => ENABLED Next

Completed(i) == SAVE => OutputPaths(experiments[i]) \subseteq written

\* C4, amended: the loop catches nothing, so a read failure ends the run:
\* nothing is written for the failing experiment or any later one, no later
\* experiment is attempted, and an experiment is only ever attempted after
\* every earlier one ran to completion.
C4_ReadFailureEndsRun ==
    /\ \A i \in 1..(exp_idx - 1) : Completed(i)
    /\ err \in ReadErrors =>
          /\ ~ENABLED Next
          /\ \A i \in exp_idx..Len(experiments) :
                written \cap OutputPaths(experiments[i]) = {}

C4_Witness ==
    /\ err \in ReadErrors
    /\ exp_idx < Len(experiments)
    /\ \A p \in OutputPaths(experiments[exp_idx + 1]) : disk[p] = disk_before[p]

\* The artifacts of the current experiment as a function of the Prediction
\* columns read and one label column.
Consensus == majority_voting(np_array(model_preds))

ArtifactOf(path, y_true) ==
    IF path[3] = ".csv" THEN predictions_csv(Consensus)
    ELSE IF path[3] = ".txt" THEN classification_report(y_true, Consensus)
    ELSE to_csv(confusion_matrix(y_true, Consensus), cm_index, cm_columns)

\* C5: the ground truth of an experiment is the label column of the first
\* path only: once the first file is read y_true_loaded is its label column
\* whatever label columns the later files hold, and every artifact a step
\* writes is determined by the Prediction columns and that one label column,
\* so runs differing only in later label columns write the same.
C5_GroundTruthFromFirstPath ==
    [][/\ path_idx' >= 1 => y_true_loaded' = first_label'
       /\ \A p \in written' \ written :
             disk'[p] = {ArtifactOf(p, first_label)}]_vars

C5_Witness ==
    /\ later_differs
    /\ pc = "for_experiment"
    /\ OutputPaths(experiment) \subseteq written

\* The table the claim describes: one row 'Actual k' and one column
\* 'Predicted k' per class occurring in ground truth or consensus.
ClassTable(y_true, pred) ==
    LET labels == unique_labels(y_true, pred) IN
    to_csv(confusion_matrix(y_true, pred),
           [i \in DOMAIN labels |-> "Actual " \o ToString(labels[i])],
           [i \in DOMAIN labels |-> "Predicted " \o ToString(labels[i])])

\* C6: save_confusion_matrix writes, for any number C >= 1 of classes, the
\* C x C table labelled 'Actual k' / 'Predicted k', and never fails.
C6_ConfusionMatrixAnyClasses ==
    /\ pc = "save_confusion_matrix" => err = "none"
    /\ \A p \in written :
          (exp_idx >= 1 /\ p = file_matrix(ensemble_file_name(experiment))) =>
              disk[p] = {ClassTable(y_true_loaded, ensembler_pred)}

\* C8: nothing is carried from one experiment into the next: an experiment
\* starts with an empty prediction list and no ground truth, the list holds
\* exactly the files read for it, the ground truth is the label column of
\* its own first file, and the consensus is the vote of its own rows.
C8_NothingPersists ==
    /\ (pc = "for_path" /\ path_idx = 0) =>
          (model_preds = <<>> /\ y_true_loaded = None)
    /\ pc \in {"for_path", "np_array"} => Len(model_preds) = path_idx
    /\ (pc \in {"for_path", "np_array"} \cup SavePcs /\ path_idx >= 1) =>
          y_true_loaded = first_label
    /\ pc \in SavePcs =>
          /\ Len(model_preds) = Len(preds_path)
          /\ ensembler_pred = Consensus

C8_Witness ==
    /\ exp_idx = 2
    /\ pc = "for_path"
    /\ path_idx = 0
    /\ ensembler_pred # None
    /\ model_preds = <<>>

\* C9: every write replaces the file's content by exactly the new content,
\* whatever the file held (so writing the same artifact twice leaves it as
\* after the first write); a write touches one path only, and a path written
\* by one experiment is never written again by another.
C9_OverwriteWrites ==
    /\ [](\A i, j \in DOMAIN experiments :
             i # j => OutputPaths(experiments[i]) \cap OutputPaths(experiments[j]) = {})
    /\ [][/\ pc = "save_ensemble_predictions" =>
                disk'[file_predictions(ensemble_file_name(experiment))]
                    = {predictions_csv(ensembler_pred)}
          /\ pc = "save_ensemble_scores" =>
                disk'[file_scores(ensemble_file_name(experiment))]
                    = {classification_report(y_true_loaded, ensembler_pred)}
          /\ (pc = "save_confusion_matrix" /\ err' = "none") =>
                disk'[file_matrix(ensemble_file_name(experiment))]
                    = {to_csv(confusion_matrix(y_true_loaded, ensembler_pred),
                              cm_index, cm_columns)}
          /\ \A p \in AllOutputPaths :
                (p \in written \/ p \notin written') => disk'[p] = disk[p]]_vars

\* A file that held the same artifact before the run has been written again.
C9_Witness ==
    \E p \in written : disk_before[p] # {} /\ disk[p] = disk_before[p]

\* C10: within an experiment all files are read and the vote is computed
\* before anything is written; the artifacts are written in the order
\* predictions, scores, matrix, and only when SAVE; a read failure leaves no
\* artifact of the experiment written, a failure of the last write leaves
\* the two earlier artifacts on disk.
C10_ReadVoteThenWrite ==
    /\ pc \in {"for_path", "np_array"} =>
          written \cap OutputPaths(experiment) = {}
    /\ pc \in SavePcs =>
          /\ SAVE
          /\ path_idx = Len(preds_path)
          /\ Len(model_preds) = Len(preds_path)
          /\ ensembler_pred = Consensus
    /\ ~SAVE => (written = {} /\ disk = disk_before)
    /\ \A i \in 1..exp_idx :
          LET name == ensemble_file_name(experiments[i]) IN
          /\ file_scores(name) \in written => file_predictions(name) \in written
          /\ file_matrix(name) \in written => file_scores(name) \in written
    /\ pc = "save_ensemble_scores" =>
          written \cap OutputPaths(experiment)
              = {file_predictions(ensemble_file_name(experiment))}
    /\ pc = "save_confusion_matrix" =>
          /\ written \cap OutputPaths(experiment)
                = {file_predictions(ensemble_file_name(experiment)),
                   file_scores(ensemble_file_name(experiment))}
          /\ disk[file_predictions(ensemble_file_name(experiment))]
                = {predictions_csv(ensembler_pred)}
          /\ disk[file_scores(ensemble_file_name(experiment))]
                = {classification_report(y_true_loaded, ensembler_pred)}

\* The last write failed; predictions and scores of the experiment remain.
C10_Witness ==
    /\ pc = "save_confusion_matrix"
    /\ err = "ValueError"
    /\ file_scores(ensemble_file_name(experiment)) \in written
=============================================================================
